---- MODULE Spec2Model ----
(***************************************************************************)
(* gnb (src/src/main.rs): create a git branch `<prefix>/<slug>[_<n>]`.     *)
(*                                                                         *)
(* Text is a sequence of characters; a character is a one-element string,  *)
(* and a string such as "U+00E9" stands for that single non-ASCII code     *)
(* point.                                                                  *)
(*                                                                         *)
(*   SpecSanitize  one call of sanitize, scanned character by character,   *)
(*                 followed by a second call on the first call's output    *)
(*   SpecPick      pick_available_name applied to a candidate and a set    *)
(*   SpecRun       one run of the program (main/run) against a repository  *)
(*                 that another process may add branches to                *)
(***************************************************************************)
EXTENDS Integers, Sequences, FiniteSets, TLC

VARIABLES
    \* ---- sanitize / sanitize_component (SpecSanitize)
    arg,                 \* the text given to the first call of sanitize
    name,                \* the text given to the current call
    pos,                 \* index of the next character of name.chars()
    result,              \* sanitize_component: result
    prev_was_separator,  \* sanitize_component: prev_was_separator
    prev_was_dot,        \* sanitize_component: prev_was_dot
    cleaned,             \* sanitize_component: the returned string
    sanitized,           \* sanitize: the returned string
    first,               \* what the first call of sanitize returned
    pass,                \* 1: first call, 2: call on the first call's output
    spc,                 \* "scan", "component" (sanitize_component returned), "returned"
    \* ---- pick_available_name (SpecPick)
    pk_candidate, pk_existing, pk_out, pk_pc,
    \* ---- run (SpecRun)
    pc,                  \* position in run()
    env_prefix,          \* GNB_PREFIX: whether it is set, and its text
    id_stdout,           \* what `id -un` prints
    cli_name,            \* cli.name, a sequence of texts
    origin,              \* whether the repository has a remote named origin
    local_refs,          \* refs/heads of the repository
    remote_refs,         \* refs/heads of origin
    prefix, from_env, candidate, existing, target,
    calls,               \* the subprocess invocations made so far, in order
    spawn_failed,        \* some invocation could not be started
    failed,              \* the step whose error run() returned, or "none"
    error,               \* the error message, or "none"
    exit_code,           \* -1 while running
    created,             \* branches this run created
    external             \* branches another process created during the run

sanVars == <<arg, name, pos, result, prev_was_separator, prev_was_dot,
             cleaned, sanitized, first, pass, spc>>
pickVars == <<pk_candidate, pk_existing, pk_out, pk_pc>>
runVars == <<pc, env_prefix, id_stdout, cli_name, origin, local_refs, remote_refs,
             prefix, from_env, candidate, existing, target, calls, spawn_failed,
             failed, error, exit_code, created, external>>
vars == <<sanVars, pickVars, runVars>>

----------------------------------------------------------------------------
\* Bounds of the model.

\* Longest input to sanitize, in tokens (see Tokens).
MaxTokens == 4

\* Branches another process creates during one run.
MaxExternal == 1

----------------------------------------------------------------------------
\* Characters.

AsciiLetters == {"a", "b", "u", "x", "l", "o", "c", "k"}
AsciiDigits == {"0", "1", "2", "3", "4", "5", "6", "7", "8", "9"}
\* U+00E9 (e with acute) is alphabetic, U+0663 (Arabic-Indic digit three) is numeric.
OtherAlphanumeric == {"U+00E9", "U+0663"}
\* U+3000 is the ideographic space.
Whitespace == {" ", "\n", "U+3000"}

\* char::is_whitespace
is_whitespace(c) == c \in Whitespace

\* char::is_alphanumeric: Unicode Alphabetic or Numeric, not ASCII only
is_alphanumeric(c) == c \in AsciiLetters \cup AsciiDigits \cup OtherAlphanumeric

is_allowed_branch_char(c) == is_alphanumeric(c) \/ c \in {".", "_", "+", "-"}

----------------------------------------------------------------------------
\* Text helpers.

Last(s) == s[Len(s)]
Front(s) == SubSeq(s, 1, Len(s) - 1)

ends_with(s, suffix) ==
    /\ Len(s) >= Len(suffix)
    /\ SubSeq(s, Len(s) - Len(suffix) + 1, Len(s)) = suffix

starts_with(s, p) ==
    /\ Len(s) >= Len(p)
    /\ SubSeq(s, 1, Len(p)) = p

contains(s, sub) ==
    \E i \in 1..(Len(s) - Len(sub) + 1) : SubSeq(s, i, i + Len(sub) - 1) = sub

RECURSIVE trim_start_matches(_, _)
trim_start_matches(s, set) ==
    IF s # <<>> /\ Head(s) \in set THEN trim_start_matches(Tail(s), set) ELSE s

RECURSIVE trim_end_matches(_, _)
trim_end_matches(s, set) ==
    IF s # <<>> /\ Last(s) \in set THEN trim_end_matches(Front(s), set) ELSE s

\* Only one character is removed at each end.
trim_one_each_end(s, set) ==
    LET t == IF s # <<>> /\ Head(s) \in set THEN Tail(s) ELSE s
    IN  IF t # <<>> /\ Last(t) \in set THEN Front(t) ELSE t

\* Only dashes are removed.
trim_dashes_only(s, set) ==
    trim_end_matches(trim_start_matches(s, {"-"}), {"-"})

\* str::trim_matches: every leading and trailing character of the set
trim_matches(s, set) == trim_end_matches(trim_start_matches(s, set), set)

\* str::trim
trim(s) == trim_matches(s, Whitespace)

DotLock == <<".", "l", "o", "c", "k">>

----------------------------------------------------------------------------
\* sanitize_component.

push_separator(st) ==
    [result |-> IF ~st.prev_was_separator THEN Append(st.result, "-") ELSE st.result,
     prev_was_separator |-> TRUE,
     prev_was_dot |-> FALSE]

scan_start == [result |-> <<>>, prev_was_separator |-> FALSE, prev_was_dot |-> FALSE]

\* The loop body without the prev_was_dot branch: a second dot is emitted.
scan_char_keeps_second_dot(st, c0) ==
    LET c == IF c0 = "/" THEN "-" ELSE c0
    IN  IF is_whitespace(c) THEN push_separator(st)
        ELSE IF ~is_allowed_branch_char(c) THEN push_separator(st)
        ELSE IF c = "." THEN
            IF st.result = <<>> \/ st.prev_was_separator THEN push_separator(st)
            ELSE [result |-> Append(st.result, "."),
                  prev_was_separator |-> FALSE,
                  prev_was_dot |-> TRUE]
        ELSE [result |-> Append(st.result, c),
              prev_was_separator |-> (c = "-"),
              prev_was_dot |-> FALSE]

\* One iteration of `for mut c in name.chars()`.
\* push_separator with the last dot popped is the prev_was_dot branch.
scan_char(st, c0) ==
    LET c == IF c0 = "/" THEN "-" ELSE c0
    IN  IF is_whitespace(c) THEN push_separator(st)
        ELSE IF ~is_allowed_branch_char(c) THEN push_separator(st)
        ELSE IF c = "." THEN
            IF st.result = <<>> \/ st.prev_was_separator THEN push_separator(st)
            ELSE IF st.prev_was_dot
                 THEN push_separator([st EXCEPT !.result = Front(st.result)])
            ELSE [result |-> Append(st.result, "."),
                  prev_was_separator |-> FALSE,
                  prev_was_dot |-> TRUE]
        ELSE [result |-> Append(st.result, c),
              prev_was_separator |-> (c = "-"),
              prev_was_dot |-> FALSE]

RECURSIVE scan_from(_, _)
scan_from(st, s) == IF s = <<>> THEN st ELSE scan_from(scan_char(st, Head(s)), Tail(s))

\* A .lock suffix is left as it is.
neutralize_lock_never(s) == s

\* `if cleaned.ends_with(".lock") { cleaned.replace_range(dot_index..dot_index + 1, "-") }`
neutralize_lock(s) ==
    IF ends_with(s, DotLock)
    THEN LET dot_index == Len(s) - Len(DotLock)     \* 0-based
         IN  [s EXCEPT ![dot_index + 1] = "-"]
    ELSE s

\* What follows the loop: the trim, then the .lock suffix.
finish(res) == neutralize_lock(trim_matches(res, {"-", "."}))

sanitize_component(s) == finish(scan_from(scan_start, s).result)

\* today_stamp(): the clock is read at the call; YYMMDD.
Stamps == {<<"2", "6", "1", "1", "0", "5">>, <<"0", "0", "0", "1", "0", "1">>}

----------------------------------------------------------------------------
\* SpecSanitize: sanitize(arg), then sanitize of what it returned.

Tokens == {<<"a">>, <<"_">>, <<"l", "o", "c", "k">>, <<".">>, <<"-">>, <<"/">>, <<" ">>,
           <<"@">>, <<"U+00E9">>}

RECURSIVE Flatten(_)
Flatten(ts) == IF ts = <<>> THEN <<>> ELSE Head(ts) \o Flatten(Tail(ts))

Inputs == {Flatten(ts) : ts \in UNION {[1..n -> Tokens] : n \in 0..MaxTokens}}

PickIdle ==
    /\ pk_candidate = <<>> /\ pk_existing = {} /\ pk_out = "none" /\ pk_pc = "idle"

RunIdle ==
    /\ pc = "idle" /\ env_prefix = [set |-> FALSE, value |-> <<>>] /\ id_stdout = <<>> /\ cli_name = <<>>
    /\ origin = FALSE /\ local_refs = {} /\ remote_refs = {}
    /\ prefix = <<>> /\ from_env = FALSE /\ candidate = <<>> /\ existing = {}
    /\ target = <<>> /\ calls = <<>> /\ spawn_failed = FALSE /\ failed = "none"
    /\ error = "none" /\ exit_code = -1 /\ created = {} /\ external = {}

SanIdle ==
    /\ arg = <<>> /\ name = <<>> /\ pos = 1 /\ result = <<>>
    /\ prev_was_separator = FALSE /\ prev_was_dot = FALSE
    /\ cleaned = <<>> /\ sanitized = <<>> /\ first = <<>> /\ pass = 1 /\ spc = "idle"

SanInit ==
    /\ arg \in Inputs
    /\ name = arg
    /\ pos = 1
    /\ result = <<>>
    /\ prev_was_separator = FALSE
    /\ prev_was_dot = FALSE
    /\ cleaned = <<>>
    /\ sanitized = <<>>
    /\ first = <<>>
    /\ pass = 1
    /\ spc = "scan"
    /\ PickIdle
    /\ RunIdle

\* One iteration of the loop of sanitize_component.
Scan ==
    /\ spc = "scan"
    /\ pos <= Len(name)
    /\ LET st == scan_char([result |-> result,
                            prev_was_separator |-> prev_was_separator,
                            prev_was_dot |-> prev_was_dot], name[pos])
       IN  /\ result' = st.result
           /\ prev_was_separator' = st.prev_was_separator
           /\ prev_was_dot' = st.prev_was_dot
    /\ pos' = pos + 1
    /\ UNCHANGED <<arg, name, cleaned, sanitized, first, pass, spc, pickVars, runVars>>

\* The loop is over: trim, neutralize a .lock suffix, return.
Finish ==
    /\ spc = "scan"
    /\ pos > Len(name)
    /\ cleaned' = finish(result)
    /\ spc' = "component"
    /\ UNCHANGED <<arg, name, pos, result, prev_was_separator, prev_was_dot,
                   sanitized, first, pass, pickVars, runVars>>

\* sanitize: the date stamp when sanitize_component returned the empty string.
Return ==
    /\ spc = "component"
    /\ IF cleaned = <<>>
       THEN \E stamp \in Stamps : sanitized' = stamp
       ELSE sanitized' = cleaned
    /\ spc' = "returned"
    /\ UNCHANGED <<arg, name, pos, result, prev_was_separator, prev_was_dot,
                   cleaned, first, pass, pickVars, runVars>>

\* sanitize is called again, on what the first call returned.
SecondCall ==
    /\ spc = "returned"
    /\ pass = 1
    /\ first' = sanitized
    /\ name' = sanitized
    /\ pass' = 2
    /\ pos' = 1
    /\ result' = <<>>
    /\ prev_was_separator' = FALSE
    /\ prev_was_dot' = FALSE
    /\ cleaned' = <<>>
    /\ sanitized' = <<>>
    /\ spc' = "scan"
    /\ UNCHANGED <<arg, pickVars, runVars>>

SanNext == Scan \/ Finish \/ Return \/ SecondCall

SpecSanitize == SanInit /\ [][SanNext]_vars

----------------------------------------------------------------------------
\* pick_available_name.

SuffixFirst == 2
SuffixLast == 100

DecimalDigit == <<"0", "1", "2", "3", "4", "5", "6", "7", "8", "9">>

\* An integer as `{}` formats it.
RECURSIVE decimal(_)
decimal(n) ==
    IF n < 10 THEN <<DecimalDigit[n + 1]>>
    ELSE decimal(n \div 10) \o <<DecimalDigit[(n % 10) + 1]>>

\* format!("{}_{}", candidate, i)
with_suffix(c, i) == c \o <<"_">> \o decimal(i)

Ok(v) == [ok |-> TRUE, value |-> v]
Err(msg) == [ok |-> FALSE, error |-> msg]

\* `for i in 2..100` in place of `2..=100`: the last suffix is never tried.
RECURSIVE probe_exclusive(_, _, _)
probe_exclusive(c, E, i) ==
    IF i >= SuffixLast
    THEN Err("Could not find available branch name after 100 attempts")
    ELSE IF with_suffix(c, i) \notin E THEN Ok(with_suffix(c, i))
    ELSE probe_exclusive(c, E, i + 1)

\* `for i in 2..=100`, from i on.
RECURSIVE probe(_, _, _)
probe(c, E, i) ==
    IF i > SuffixLast
    THEN Err("Could not find available branch name after 100 attempts")
    ELSE IF with_suffix(c, i) \notin E THEN Ok(with_suffix(c, i))
    ELSE probe(c, E, i + 1)

pick_available_name(c, E) ==
    IF c \notin E THEN Ok(c) ELSE probe(c, E, SuffixFirst)

----------------------------------------------------------------------------
\* SpecPick: pick_available_name(pk_candidate, pk_existing).

PickBase == <<"u", "/", "a">>

\* The i-th name of the probe sequence of c.
probe_name(c, i) == IF i = 1 THEN c ELSE with_suffix(c, i)

\* Branches that match no candidate.
Unrelated == {<<"m", "a", "i", "n">>, <<"u", "/", "b">>}

\* The first k names of PickBase's probe sequence but the h-th, and unrelated ones.
ExistingSets ==
    {({probe_name(PickBase, i) : i \in 1..k} \ {probe_name(PickBase, h)}) \cup others :
        k \in 0..(SuffixLast + 1), h \in 0..(SuffixLast + 1), others \in SUBSET Unrelated}

PickCandidates == {PickBase, with_suffix(PickBase, 2), <<"u", "/", "b">>}

PickInit ==
    /\ pk_candidate \in PickCandidates
    /\ pk_existing \in ExistingSets
    /\ pk_out = "none"
    /\ pk_pc = "call"
    /\ SanIdle
    /\ RunIdle

Pick ==
    /\ pk_pc = "call"
    /\ pk_out' = pick_available_name(pk_candidate, pk_existing)
    /\ pk_pc' = "returned"
    /\ UNCHANGED <<pk_candidate, pk_existing, sanVars, runVars>>

PickNext == Pick

SpecPick == PickInit /\ [][PickNext]_vars

----------------------------------------------------------------------------
\* SpecRun: main and run, one subprocess invocation per step, while another
\* process may create branches in the repository and on origin.

RECURSIVE join(_, _)
join(args, sep) ==
    IF args = <<>> THEN <<>>
    ELSE IF Len(args) = 1 THEN Head(args)
    ELSE Head(args) \o sep \o join(Tail(args), sep)

\* sanitize, given what today_stamp() returns if it is called.
sanitize(text, stamp) ==
    LET s == sanitize_component(text) IN IF s = <<>> THEN stamp ELSE s

\* build_base_name
build_base_name(args, stamp) == IF args = <<>> THEN stamp ELSE join(args, <<" ">>)

U_A == <<"u", "/", "a">>
Main_ == <<"m", "a", "i", "n">>

\* All 100 names of the probe sequence of c.
all_taken(c) == {probe_name(c, i) : i \in 1..SuffixLast}

EnvPrefixes ==
    {[set |-> FALSE, value |-> <<>>]} \cup
    {[set |-> TRUE, value |-> v] : v \in {<<>>, <<" ">>, <<"@">>, <<" ", "u", ".">>}}
IdOutputs == {<<"u", "\n">>, <<"@", "\n">>}
CliNames == {<<>>, <<<<"a">>>>, <<<<"@">>>>, <<<<"a">>, <<"b">>>>}
InitialLocal == {{}, {Main_, U_A}, {U_A, with_suffix(U_A, 2)}, all_taken(U_A)}
InitialRemote == {{}, {Main_, U_A, with_suffix(U_A, 2)}}
\* What the other process may create.
ExternalNames == {U_A, with_suffix(U_A, 2), with_suffix(U_A, 3)}

RunInit ==
    /\ pc = "ensure_git_repo"
    /\ env_prefix \in EnvPrefixes
    /\ id_stdout \in IdOutputs
    /\ cli_name \in CliNames
    /\ origin \in BOOLEAN
    /\ local_refs \in InitialLocal
    /\ remote_refs \in InitialRemote
    /\ prefix = <<>>
    /\ from_env = FALSE
    /\ candidate = <<>>
    /\ existing = {}
    /\ target = <<>>
    /\ calls = <<>>
    /\ spawn_failed = FALSE
    /\ failed = "none"
    /\ error = "none"
    /\ exit_code = -1
    /\ created = {}
    /\ external = {}
    /\ SanIdle
    /\ PickIdle

runInputs == <<env_prefix, id_stdout, cli_name, origin>>

\* A subprocess is invoked, or a step of run() is entered.
Call(op, a) == calls' = Append(calls, [op |-> op, arg |-> a])

\* The step returns Err: run() returns it to main.
Fail(step, msg) == failed' = step /\ error' = msg /\ pc' = "run_err"

\* Command::output() / status(): it could not start, exited non-zero, printed
\* bytes that are not UTF-8, or succeeded.
Outcomes == {"spawn_fail", "exit_nonzero", "bad_utf8", "ok"}

EnsureGitRepo ==
    /\ pc = "ensure_git_repo"
    /\ Call("git rev-parse", <<>>)
    /\ \E out \in {"spawn_fail", "exit_nonzero", "ok"} :
        /\ spawn_failed' = (spawn_failed \/ out = "spawn_fail")
        /\ CASE out = "spawn_fail" -> Fail("ensure_git_repo", "Failed to run git")
             [] out = "exit_nonzero" ->
                    Fail("ensure_git_repo", "Not inside a git repository")
             [] OTHER -> pc' = "get_prefix" /\ UNCHANGED <<failed, error>>
    /\ UNCHANGED <<runInputs, local_refs, remote_refs, prefix, from_env, candidate,
                   existing, target, exit_code, created, external, sanVars, pickVars>>

\* GNB_PREFIX is set and not empty after trim().
override_given == env_prefix.set /\ trim(env_prefix.value) # <<>>

\* An override that sanitizes to the empty string falls back to the user name.
GetPrefixFromEnvFallsBack ==
    /\ pc = "get_prefix"
    /\ override_given
    /\ LET s == sanitize_component(trim(env_prefix.value))
           u == sanitize_component(trim(id_stdout))
       IN  /\ from_env' = (s # <<>>)
           /\ Call(IF s = <<>> THEN "id -un" ELSE "get_prefix", <<>>)
           /\ IF s = <<>> /\ u = <<>>
              THEN /\ Fail("get_prefix", "Username is empty or invalid after sanitization")
                   /\ UNCHANGED prefix
              ELSE /\ prefix' = (IF s = <<>> THEN u ELSE s)
                   /\ pc' = "build_candidate"
                   /\ UNCHANGED <<failed, error>>
    /\ UNCHANGED <<runInputs, local_refs, remote_refs, candidate, existing, target,
                   spawn_failed, exit_code, created, external, sanVars, pickVars>>

\* get_prefix, first match arm: GNB_PREFIX is used and `id` is not run.
GetPrefixFromEnv ==
    /\ pc = "get_prefix"
    /\ override_given
    /\ from_env' = TRUE
    /\ Call("get_prefix", <<>>)
    /\ LET s == sanitize_component(trim(env_prefix.value))
       IN  IF s = <<>>
           THEN /\ Fail("get_prefix", "GNB_PREFIX is empty or invalid after sanitization")
                /\ UNCHANGED prefix
           ELSE /\ prefix' = s
                /\ pc' = "build_candidate"
                /\ UNCHANGED <<failed, error>>
    /\ UNCHANGED <<runInputs, local_refs, remote_refs, candidate, existing, target,
                   spawn_failed, exit_code, created, external, sanVars, pickVars>>

\* get_prefix, second match arm: the user name that `id -un` prints.
GetPrefixFromId ==
    /\ pc = "get_prefix"
    /\ ~override_given
    /\ Call("id -un", <<>>)
    /\ UNCHANGED from_env
    /\ \E out \in Outcomes :
        /\ spawn_failed' = (spawn_failed \/ out = "spawn_fail")
        /\ CASE out = "spawn_fail" ->
                    Fail("get_prefix", "Failed to get username") /\ UNCHANGED prefix
             [] out = "exit_nonzero" ->
                    Fail("get_prefix", "Failed to determine username") /\ UNCHANGED prefix
             [] out = "bad_utf8" ->
                    Fail("get_prefix", "Username was not valid UTF-8") /\ UNCHANGED prefix
             [] OTHER ->
                    LET s == sanitize_component(trim(trim(id_stdout)))
                    IN  IF s = <<>>
                        THEN /\ Fail("get_prefix",
                                     "Username is empty or invalid after sanitization")
                             /\ UNCHANGED prefix
                        ELSE /\ prefix' = s
                             /\ pc' = "build_candidate"
                             /\ UNCHANGED <<failed, error>>
    /\ UNCHANGED <<runInputs, local_refs, remote_refs, candidate, existing, target,
                   exit_code, created, external, sanVars, pickVars>>

\* build_base_name, sanitize and format!("{}/{}", prefix, sanitized).
BuildCandidate ==
    /\ pc = "build_candidate"
    /\ \E stamp \in Stamps :
        candidate' = prefix \o <<"/">> \o sanitize(build_base_name(cli_name, stamp), stamp)
    /\ pc' = "collect_local_branches"
    /\ UNCHANGED <<runInputs, local_refs, remote_refs, prefix, from_env, existing, target,
                   calls, spawn_failed, failed, error, exit_code, created, external,
                   sanVars, pickVars>>

\* collect_local_branches: the branches of refs/heads at the time of the call.
CollectLocalBranches ==
    /\ pc = "collect_local_branches"
    /\ Call("git for-each-ref", <<>>)
    /\ \E out \in Outcomes :
        /\ spawn_failed' = (spawn_failed \/ out = "spawn_fail")
        /\ CASE out = "spawn_fail" ->
                    /\ Fail("collect_existing_branches", "Failed to list local branches")
                    /\ UNCHANGED existing
             [] out = "exit_nonzero" ->
                    /\ Fail("collect_existing_branches", "Failed to list local branches: stderr")
                    /\ UNCHANGED existing
             [] out = "bad_utf8" ->
                    /\ Fail("collect_existing_branches", "Local branch list was not valid UTF-8")
                    /\ UNCHANGED existing
             [] OTHER ->
                    /\ existing' = {b \in local_refs : trim(b) # <<>>}
                    /\ pc' = "has_origin_remote"
                    /\ UNCHANGED <<failed, error>>
    /\ UNCHANGED <<runInputs, local_refs, remote_refs, prefix, from_env, candidate, target,
                   exit_code, created, external, sanVars, pickVars>>

\* has_origin_remote: `.map(|status| status.success()).unwrap_or(false)`.
HasOriginRemote ==
    /\ pc = "has_origin_remote"
    /\ Call("git remote get-url", <<>>)
    /\ \E out \in {"spawn_fail", "ran"} :
        /\ spawn_failed' = (spawn_failed \/ out = "spawn_fail")
        /\ LET has == IF out = "spawn_fail" THEN FALSE ELSE origin
           IN  pc' = IF has THEN "collect_remote_branches" ELSE "pick_available_name"
    /\ UNCHANGED <<runInputs, local_refs, remote_refs, prefix, from_env, candidate,
                   existing, target, failed, error, exit_code, created, external,
                   sanVars, pickVars>>

\* collect_remote_branches: the heads of origin matching refs/heads/<candidate>*.
CollectRemoteBranches ==
    /\ pc = "collect_remote_branches"
    /\ Call("git ls-remote", <<>>)
    /\ \E out \in Outcomes :
        /\ spawn_failed' = (spawn_failed \/ out = "spawn_fail")
        /\ CASE out = "spawn_fail" ->
                    /\ Fail("collect_existing_branches", "Failed to list remote branches")
                    /\ UNCHANGED existing
             [] out = "exit_nonzero" ->
                    /\ Fail("collect_existing_branches", "Failed to list remote branches: stderr")
                    /\ UNCHANGED existing
             [] out = "bad_utf8" ->
                    /\ Fail("collect_existing_branches", "Remote branch list was not valid UTF-8")
                    /\ UNCHANGED existing
             [] OTHER ->
                    /\ existing' = existing \cup
                                   {b \in remote_refs : starts_with(b, candidate)}
                    /\ pc' = "pick_available_name"
                    /\ UNCHANGED <<failed, error>>
    /\ UNCHANGED <<runInputs, local_refs, remote_refs, prefix, from_env, candidate, target,
                   exit_code, created, external, sanVars, pickVars>>

\* `let target = pick_available_name(&candidate, &existing)?;`
PickAvailableName ==
    /\ pc = "pick_available_name"
    /\ Call("pick_available_name", candidate)
    /\ LET r == pick_available_name(candidate, existing)
       IN  IF r.ok
           THEN /\ target' = r.value
                /\ pc' = "git_switch"
                /\ UNCHANGED <<failed, error>>
           ELSE /\ Fail("pick_available_name", r.error)
                /\ UNCHANGED target
    /\ UNCHANGED <<runInputs, local_refs, remote_refs, prefix, from_env, candidate,
                   existing, spawn_failed, exit_code, created, external, sanVars, pickVars>>

\* git creates a branch only under a name that no local branch has.
CreateOutcomes(b) ==
    {"spawn_fail", "exit_nonzero"} \cup (IF b \in local_refs THEN {} ELSE {"ok"})

\* create_branch, `git switch -c name`.
GitSwitch ==
    /\ pc = "git_switch"
    /\ Call("git switch -c", target)
    /\ \E out \in CreateOutcomes(target) :
        /\ spawn_failed' = (spawn_failed \/ out = "spawn_fail")
        /\ CASE out = "spawn_fail" ->
                    /\ Fail("create_branch", "Failed to run git switch")
                    /\ UNCHANGED <<local_refs, created>>
             [] out = "exit_nonzero" ->
                    /\ pc' = "git_checkout"
                    /\ UNCHANGED <<failed, error, local_refs, created>>
             [] OTHER ->
                    /\ local_refs' = local_refs \cup {target}
                    /\ created' = created \cup {target}
                    /\ pc' = "run_ok"
                    /\ UNCHANGED <<failed, error>>
    /\ UNCHANGED <<runInputs, remote_refs, prefix, from_env, candidate, existing, target,
                   exit_code, external, sanVars, pickVars>>

\* A failed creation lists the branches again and tries the next free name.
GitCheckoutRetries ==
    /\ pc = "git_checkout"
    /\ Call("git checkout -b", target)
    /\ \E out \in CreateOutcomes(target) :
        /\ spawn_failed' = (spawn_failed \/ out = "spawn_fail")
        /\ CASE out = "spawn_fail" ->
                    /\ Fail("create_branch", "Failed to run git checkout")
                    /\ UNCHANGED <<local_refs, created>>
             [] out = "exit_nonzero" ->
                    /\ pc' = "collect_local_branches"
                    /\ UNCHANGED <<failed, error, local_refs, created>>
             [] OTHER ->
                    /\ local_refs' = local_refs \cup {target}
                    /\ created' = created \cup {target}
                    /\ pc' = "run_ok"
                    /\ UNCHANGED <<failed, error>>
    /\ UNCHANGED <<runInputs, remote_refs, prefix, from_env, candidate, existing, target,
                   exit_code, external, sanVars, pickVars>>

\* create_branch, the fallback `git checkout -b name`.
GitCheckout ==
    /\ pc = "git_checkout"
    /\ Call("git checkout -b", target)
    /\ \E out \in CreateOutcomes(target) :
        /\ spawn_failed' = (spawn_failed \/ out = "spawn_fail")
        /\ CASE out = "spawn_fail" ->
                    /\ Fail("create_branch", "Failed to run git checkout")
                    /\ UNCHANGED <<local_refs, created>>
             [] out = "exit_nonzero" ->
                    /\ Fail("create_branch", "Failed to create branch: stderr")
                    /\ UNCHANGED <<local_refs, created>>
             [] OTHER ->
                    /\ local_refs' = local_refs \cup {target}
                    /\ created' = created \cup {target}
                    /\ pc' = "run_ok"
                    /\ UNCHANGED <<failed, error>>
    /\ UNCHANGED <<runInputs, remote_refs, prefix, from_env, candidate, existing, target,
                   exit_code, external, sanVars, pickVars>>

\* Every error is printed and the process still exits with success.
MainExitsZero ==
    /\ pc \in {"run_ok", "run_err"}
    /\ exit_code' = 0
    /\ pc' = "exited"
    /\ UNCHANGED <<runInputs, local_refs, remote_refs, prefix, from_env, candidate,
                   existing, target, calls, spawn_failed, failed, error, created,
                   external, sanVars, pickVars>>

\* main: `Ok(()) => ExitCode::SUCCESS`, `Err(e) => ExitCode::from(1)`.
Main ==
    /\ pc \in {"run_ok", "run_err"}
    /\ exit_code' = IF pc = "run_ok" THEN 0 ELSE 1
    /\ pc' = "exited"
    /\ UNCHANGED <<runInputs, local_refs, remote_refs, prefix, from_env, candidate,
                   existing, target, calls, spawn_failed, failed, error, created,
                   external, sanVars, pickVars>>

\* Another process creates a branch, locally or on origin, while the run goes on.
ExternalCreate ==
    /\ pc # "exited"
    /\ Cardinality(external) < MaxExternal
    /\ \E b \in ExternalNames, where \in {"local", "origin"} :
        /\ IF where = "local"
           THEN /\ b \notin local_refs
                /\ local_refs' = local_refs \cup {b}
                /\ UNCHANGED remote_refs
           ELSE /\ b \notin remote_refs
                /\ remote_refs' = remote_refs \cup {b}
                /\ UNCHANGED local_refs
        /\ external' = external \cup {[where |-> where, name |-> b]}
    /\ UNCHANGED <<pc, runInputs, prefix, from_env, candidate, existing, target, calls,
                   spawn_failed, failed, error, exit_code, created, sanVars, pickVars>>

RunNext ==
    \/ EnsureGitRepo
    \/ GetPrefixFromEnv
    \/ GetPrefixFromId
    \/ BuildCandidate
    \/ CollectLocalBranches
    \/ HasOriginRemote
    \/ CollectRemoteBranches
    \/ PickAvailableName
    \/ GitSwitch
    \/ GitCheckout
    \/ Main
    \/ ExternalCreate

SpecRun == RunInit /\ [][RunNext]_vars

----------------------------------------------------------------------------
\* Properties of sanitize_component and sanitize (SpecSanitize).

\* A-Z, a-z, 0-9, '.', '_', '+', '-' (of the characters of the model).
is_ascii_only_allowed(c) == c \in AsciiLetters \cup AsciiDigits \cup {".", "_", "+", "-"}

\* sanitize_component has returned (cleaned holds its result).
ComponentReturned == spc \in {"component", "returned"}

\* C1: every character of the output of sanitize_component is one of the ASCII
\* characters A-Z, a-z, 0-9, '.', '_', '+', '-', whatever the input holds.
C1_OutputIsAsciiAllowed ==
    ComponentReturned => \A i \in 1..Len(cleaned) : is_ascii_only_allowed(cleaned[i])

\* C2: the final output of sanitize_component, after the trim and after the
\* .lock neutralization, is empty or neither starts nor ends with '-' or '.'.
C2_NoEdgeDashOrDot ==
    ComponentReturned =>
        \/ cleaned = <<>>
        \/ /\ Head(cleaned) \notin {"-", "."}
           /\ Last(cleaned) \notin {"-", "."}

\* The trim removed something and the .lock suffix was neutralized.
C2_Witness ==
    /\ spc = "component"
    /\ pass = 1
    /\ cleaned # <<>>
    /\ trim_matches(result, {"-", "."}) # result
    /\ ends_with(trim_matches(result, {"-", "."}), DotLock)

\* C3 as stated: the output of sanitize_component never contains ".lock" at any
\* position.
C3_NeverContainsDotLock == ComponentReturned => ~contains(cleaned, DotLock)

\* C3 as amended: the output of sanitize_component never ends with ".lock".
C3_NeverEndsWithDotLock == ComponentReturned => ~ends_with(cleaned, DotLock)

\* The trimmed text ended with ".lock" and its dot was replaced.
C3_Witness ==
    /\ spc = "component"
    /\ ends_with(trim_matches(result, {"-", "."}), DotLock)
    /\ ends_with(cleaned, <<"-", "l", "o", "c", "k">>)

no_double_dot(s) == ~contains(s, <<".", ".">>)

\* Every '.' follows a character that is neither '.' nor '-'.
dots_follow_text(s) ==
    \A i \in 1..Len(s) : s[i] = "." => i > 1 /\ s[i - 1] \notin {".", "-"}

\* C4: at every point of the scan and in the final output the emitted text has
\* no two consecutive '.'; a '.' is emitted only after a character that is neither
\* '.' nor a separator; a '.' arriving right after an emitted '.' removes that
\* dot and emits a single '-' in its place.
C4_NoConsecutiveDots ==
    /\ [](/\ no_double_dot(result) /\ dots_follow_text(result)
          /\ no_double_dot(cleaned) /\ dots_follow_text(cleaned)
          /\ no_double_dot(sanitized))
    /\ [][/\ (/\ pos' = pos + 1
              /\ Len(result') = Len(result) + 1
              /\ Last(result') = ".")
             => (result # <<>> /\ Last(result) \notin {".", "-"})
          /\ (/\ pos' = pos + 1
              /\ name[pos] = "."
              /\ result # <<>>
              /\ Last(result) = ".")
             => result' = Append(Front(result), "-")]_vars

\* The scan has just read the second of two dots that follow a letter.
C4_Witness ==
    /\ spc = "scan"
    /\ pass = 1
    /\ pos >= 4
    /\ name[pos - 1] = "."
    /\ name[pos - 2] = "."
    /\ is_alphanumeric(name[pos - 3])
    /\ result # <<>>
    /\ Last(result) = "-"
    /\ prev_was_separator
    /\ ~prev_was_dot

\* C5: sanitize(sanitize(x)) = sanitize(x): the second pass emits every character
\* of the first pass's output as it is and returns it unchanged.
C5_SanitizeIdempotent ==
    /\ (pass = 2 /\ spc = "scan") => result = SubSeq(name, 1, pos - 1)
    /\ (pass = 2 /\ ComponentReturned) => cleaned = first
    /\ (pass = 2 /\ spc = "returned") => sanitized = first

\* The second pass returned, where the first pass had trimmed the text and
\* neutralized its .lock suffix.
C5_Witness ==
    /\ pass = 2
    /\ spc = "returned"
    /\ first # arg
    /\ arg # <<>>
    /\ Head(arg) \in {"-", "."}
    /\ ends_with(arg, DotLock)
    /\ ends_with(first, <<"-", "l", "o", "c", "k">>)

----------------------------------------------------------------------------
\* Properties of pick_available_name (SpecPick).

\* The suffixes 2..100 whose name is not in E.
free_suffixes(c, E) == {i \in 2..100 : c \o <<"_">> \o decimal(i) \notin E}

smallest(S) == CHOOSE i \in S : \A j \in S : i <= j

\* C6: pick_available_name(c, E) is c when c is not in E, else c_i for the smallest
\* i in 2..100 with c_i not in E; it fails exactly when c and c_2 .. c_100 are all
\* in E; a returned name is never in E.
C6_PickAvailableName ==
    pk_pc = "returned" =>
        LET c == pk_candidate
            E == pk_existing
            free == free_suffixes(c, E)
        IN  /\ c \notin E => pk_out = Ok(c)
            /\ (c \in E /\ free # {}) =>
                   pk_out = Ok(c \o <<"_">> \o decimal(smallest(free)))
            /\ ~pk_out.ok <=> (c \in E /\ free = {})
            /\ pk_out.ok => pk_out.value \notin E

\* The candidate and its first suffixes are taken: a later suffix is returned.
C6_Witness ==
    /\ pk_pc = "returned"
    /\ pk_candidate \in pk_existing
    /\ with_suffix(pk_candidate, 2) \in pk_existing
    /\ with_suffix(pk_candidate, 99) \in pk_existing
    /\ pk_out = Ok(with_suffix(pk_candidate, 100))

\* Every one of the 100 names is taken: the call fails.
C6_WitnessExhausted ==
    /\ pk_pc = "returned"
    /\ ~pk_out.ok

----------------------------------------------------------------------------
\* Properties of a run (SpecRun).

ops == {calls[i].op : i \in 1..Len(calls)}
count(op) == Cardinality({i \in 1..Len(calls) : calls[i].op = op})
CreateOps == {"git switch -c", "git checkout -b"}
ListingOps == {"git for-each-ref", "git remote get-url", "git ls-remote"}

\* The step of the run an invocation belongs to: repository check, prefix
\* resolution, branch listing, name resolution, branch creation.
step_of(op) ==
    CASE op = "git rev-parse" -> 1
      [] op \in {"get_prefix", "id -un"} -> 2
      [] op \in ListingOps -> 3
      [] op = "pick_available_name" -> 4
      [] op \in CreateOps -> 5

past_get_prefix == pc \notin {"ensure_git_repo", "get_prefix"} /\ failed \notin {"ensure_git_repo", "get_prefix"}

C9_SpawnFailureIsFatal ==
    (pc = "exited" /\ spawn_failed) => (exit_code = 1 /\ created = {})

no_listing_after_pick ==
    \A i, j \in 1..Len(calls) :
        (i < j /\ calls[i].op = "pick_available_name") => calls[j].op \notin ListingOps

\* C10: the local and the remote listing are each queried at most once (the remote
\* one only when origin exists), never after name resolution starts; the create
\* calls are given the name computed from that snapshot even if another process
\* has created it meanwhile, and when both creation commands fail the run exits
\* with code 1 without listing again or trying another name.
C10_SnapshotOnly ==
    /\ count("git for-each-ref") <= 1
    /\ count("git ls-remote") <= 1
    /\ count("git remote get-url") <= 1
    /\ count("pick_available_name") <= 1
    /\ "git ls-remote" \in ops => origin
    /\ no_listing_after_pick
    /\ \A i \in 1..Len(calls) :
          calls[i].op \in CreateOps =>
              /\ calls[i].arg = target
              /\ target = pick_available_name(candidate, existing).value
    /\ (/\ pc \in {"run_err", "exited"}
        /\ CreateOps \subseteq ops
        /\ created = {}) =>
              /\ Len(calls) >= 2
              /\ calls[Len(calls) - 1] = [op |-> "git switch -c", arg |-> target]
              /\ calls[Len(calls)] = [op |-> "git checkout -b", arg |-> target]
              /\ failed = "create_branch"
              /\ pc = "exited" => exit_code = 1

\* Another process created the target after the snapshot: both creation commands
\* were run with it and failed, and the process exited with 1.
C10_Witness ==
    /\ pc = "exited"
    /\ exit_code = 1
    /\ target # <<>>
    /\ target \notin existing
    /\ [where |-> "local", name |-> target] \in external
    /\ created = {}
    /\ CreateOps \subseteq ops

====
